---- MODULE Spec2Model ----
(***************************************************************************)
(* A model of xdns: the domain parser and the record orchestrator of       *)
(* src/xdns/client.py (class DNSClient) and the command handlers of        *)
(* src/xdns/cli.py.                                                        *)
(*                                                                         *)
(* Strings.  A Python string is modelled as a sequence of atoms: the atom  *)
(* "." is the dot character, every other atom is a non-empty dot-free     *)
(* piece of text ("com", "cn", "@", ...).  Two label atoms are never       *)
(* adjacent, so two modelled strings are equal exactly when the Python     *)
(* strings are, and split, rstrip, join and the f-strings of the source    *)
(* are computed on the sequences as Python computes them on the text.      *)
(***************************************************************************)
EXTENDS Integers, Sequences, FiniteSets, TLC

VARIABLES
    full_domain,   \* parser run: the argument of parse_domain
    parsed,        \* parser run: NotYet, ValueError or the pair returned
    full_name,     \* parser run: the canonical name built from parsed
    records,       \* the provider's stored records, in the order it reports
    next_id,       \* the identifier the provider gives its next record
    started,       \* how many invocations have been started
    proc,          \* per caller: the DNSClient method it runs and its locals
    succeeded,     \* the <<full_domain, type>> of the successful update_or_create
    env,           \* CLI run: the process environment
    run            \* CLI run: the command, its position, output and exit code

pvars == <<full_domain, parsed, full_name>>
ovars == <<records, next_id, started, proc, succeeded>>
cvars == <<env, run>>
vars == <<full_domain, parsed, full_name, records, next_id, started, proc,
          succeeded, env, run>>

----------------------------------------------------------------------------
(* Values *)

\* Results are tagged records, so that a pending run, a raised error and a
\* returned value are told apart whatever the value is.
NotYet == [k |-> "NotYet"]
ValueError == [k |-> "ValueError"]
Pair(domain, rr) == [k |-> "ok", domain |-> domain, rr |-> rr]
Built(name) == [k |-> "ok", name |-> name]

Dot == "."
LabelAtoms == {"com", "cn", "edu", "www", "@", "CN"}
Atoms == LabelAtoms \cup {Dot}

\* Longest parser input, in atoms ("a.www.x.com.cn" has 9).
MaxAtoms == 9

\* A Python string literal without dots.
Lit(a) == <<a>>
At == Lit("@")

----------------------------------------------------------------------------
(* Python string primitives, on atom sequences *)

RECURSIVE rstrip(_)
\* str.rstrip("."): every trailing dot is removed, not only one.
rstrip(s) ==
    IF s # <<>> /\ s[Len(s)] = Dot THEN rstrip(SubSeq(s, 1, Len(s) - 1)) ELSE s

RECURSIVE split(_)
\* str.split("."): the pieces between the dots, empty pieces kept; the
\* split of the empty string is the one empty piece.
split(s) ==
    IF \A i \in 1..Len(s) : s[i] # Dot
    THEN <<s>>
    ELSE LET i == CHOOSE j \in 1..Len(s) :
                     s[j] = Dot /\ \A k \in 1..(j - 1) : s[k] # Dot
         IN <<SubSeq(s, 1, i - 1)>> \o split(SubSeq(s, i + 1, Len(s)))

RECURSIVE join(_)
\* ".".join(parts)
join(parts) ==
    IF parts = <<>> THEN <<>>
    ELSE IF Len(parts) = 1 THEN parts[1]
    ELSE parts[1] \o <<Dot>> \o join(Tail(parts))

\* parts[-k]
Neg(parts, k) == parts[Len(parts) - k + 1]

\* parts[:-k]
DropLast(parts, k) == SubSeq(parts, 1, Len(parts) - k)

\* The second-level suffixes under .cn that parse_domain special-cases.
CnSuffixes == {Lit("com"), Lit("net"), Lit("org"), Lit("gov"), Lit("edu")}

----------------------------------------------------------------------------
(* DNSClient.parse_domain *)

\* Mutant: only one trailing dot is stripped.
parse_domain_strip_one(fd) ==
    LET parts == split(IF fd # <<>> /\ fd[Len(fd)] = Dot
                       THEN SubSeq(fd, 1, Len(fd) - 1) ELSE fd) IN
    IF Len(parts) < 2 THEN ValueError
    ELSE
      LET tld == Neg(parts, 1)
          sld == Neg(parts, 2)
      IN IF tld = Lit("cn") /\ sld \in CnSuffixes
         THEN IF Len(parts) < 3 THEN Pair(fd, At)
              ELSE Pair(Neg(parts, 3) \o <<Dot>> \o sld \o <<Dot>> \o tld,
                        IF Len(parts) = 3 THEN At ELSE join(DropLast(parts, 3)))
         ELSE Pair(sld \o <<Dot>> \o tld,
                   IF Len(parts) = 2 THEN At ELSE join(DropLast(parts, 2)))

\* Mutant: "edu" is missing from the special-cased suffixes.
parse_domain_no_edu(fd) ==
    LET parts == split(rstrip(fd)) IN
    IF Len(parts) < 2 THEN ValueError
    ELSE
      LET tld == Neg(parts, 1)
          sld == Neg(parts, 2)
      IN IF tld = Lit("cn") /\ sld \in CnSuffixes \ {Lit("edu")}
         THEN IF Len(parts) < 3 THEN Pair(fd, At)
              ELSE Pair(Neg(parts, 3) \o <<Dot>> \o sld \o <<Dot>> \o tld,
                        IF Len(parts) = 3 THEN At ELSE join(DropLast(parts, 3)))
         ELSE Pair(sld \o <<Dot>> \o tld,
                   IF Len(parts) = 2 THEN At ELSE join(DropLast(parts, 2)))

parse_domain(fd) ==
    LET parts == split(rstrip(fd)) IN
    IF Len(parts) < 2 THEN ValueError
    ELSE
      LET tld == Neg(parts, 1)
          sld == Neg(parts, 2)
      IN IF tld = Lit("cn") /\ sld \in CnSuffixes
         THEN IF Len(parts) < 3 THEN Pair(fd, At)
              ELSE Pair(Neg(parts, 3) \o <<Dot>> \o sld \o <<Dot>> \o tld,
                        IF Len(parts) = 3 THEN At ELSE join(DropLast(parts, 3)))
         ELSE Pair(sld \o <<Dot>> \o tld,
                   IF Len(parts) = 2 THEN At ELSE join(DropLast(parts, 2)))

\* The canonical full name add_record, find_record, delete_record and
\* update_record hand to the provider.
FullName(domain, name) ==
    IF name = At THEN domain ELSE name \o <<Dot>> \o domain

----------------------------------------------------------------------------
(* The provider (the lexicon client behind _get_client): the environment   *)
(* of DNSClient.  It stores records and answers list, create, update and   *)
(* delete; any call may also raise, and a mutating call may report False.  *)

\* Python's None as a value of its own, and an Optional argument: Nothing
\* for None, Some(x) for x.
None == "None"
NoneV == [k |-> "None"]
Nothing == <<>>
Some(x) == <<x>>
Return(v) == [k |-> "return", v |-> v]
Raise(e) == [k |-> "raise", e |-> e]
Pending == [k |-> "pending"]

Types == {"A", "AAAA"}
Contents == {"1.1.1.1", "2.2.2.2"}
ProviderErrors == {"ProviderError"}

Ok == [k |-> "ok"]
ReportsFalse == [k |-> "false"]
ListOutcomes == {Ok} \cup {Raise(e) : e \in ProviderErrors}
Outcomes == {Ok, ReportsFalse} \cup {Raise(e) : e \in ProviderErrors}

\* Most records the provider holds, and most invocations of one behaviour.
MaxRecords == 3
MaxInvocations == 2

\* A record as the provider stores and reports it; it reports no ttl for a
\* record created without one.
Stored(id, name, rtype, content) ==
    [f \in {"id", "name", "type", "content"} |->
        CASE f = "id" -> id
          [] f = "name" -> name
          [] f = "type" -> rtype
          [] OTHER -> content]

WithTtl(r, ttl) == [f \in DOMAIN r \cup {"ttl"} |-> IF f = "ttl" THEN ttl ELSE r[f]]

\* A filter left out (Nothing) matches every record.
Matches(r, rtype, name, content) ==
    /\ rtype = Nothing \/ r["type"] = rtype[1]
    /\ name = Nothing \/ r["name"] = name[1]
    /\ content = Nothing \/ r["content"] = content[1]

Hit(recs, rtype, name, content) ==
    \E i \in 1..Len(recs) : Matches(recs[i], rtype, name, content)

\* The records the provider reports for list(rtype, name), in its order.
ProviderList(recs, rtype, name) ==
    SelectSeq(recs, LAMBDA r : Matches(r, rtype, name, Nothing))

\* create(rtype, name, content): one more record, duplicates not refused.
ProviderCreate(recs, id, rtype, name, content) ==
    Append(recs, Stored(id, name, rtype, content))

\* update(rtype, name, content): the first record of that name and type
\* gets the new content.
ProviderUpdate(recs, rtype, name, content) ==
    LET hits == {i \in 1..Len(recs) : Matches(recs[i], Some(rtype), Some(name), Nothing)}
        first == CHOOSE i \in hits : \A j \in hits : i <= j
    IN IF hits = {} THEN recs
       ELSE [recs EXCEPT ![first] =
                [f \in DOMAIN @ |-> IF f = "content" THEN content ELSE @[f]]]

\* delete(rtype, name, content): every matching record goes.
ProviderDelete(recs, rtype, name, content) ==
    SelectSeq(recs, LAMBDA r : ~Matches(r, Some(rtype), Some(name), content))

\* One provider call as the caller sees it: what was asked, how the
\* provider answered (oc), and the answer (resp).
Call(op, domain, rtype, name, content, oc, resp) ==
    [op |-> op, domain |-> domain, rtype |-> rtype, name |-> name,
     content |-> content, oc |-> oc, resp |-> resp]

\* What a method did: the provider's records after it, the next free
\* identifier, the provider calls it issued, and its return or raise.
Eff(recs, nid, calls, ret) ==
    [records |-> recs, next_id |-> nid, calls |-> calls, ret |-> ret]

----------------------------------------------------------------------------
(* DNSClient: the record methods *)

\* r.get(key, default)
Get(r, key, default) == IF key \in DOMAIN r THEN r[key] ELSE default

\* The dict list_records builds from one provider record.
Normalised(r) ==
    [id |-> Get(r, "id", None), name |-> Get(r, "name", <<>>),
     type |-> Get(r, "type", ""), content |-> Get(r, "content", ""),
     ttl |-> Get(r, "ttl", "")]

list_records(recs, nid, domain, rtype, name, oc) ==
    IF oc.k = "raise"
    THEN Eff(recs, nid,
             <<Call("list", domain, rtype, name, Nothing, oc, NoneV)>>, oc)
    ELSE LET raw == ProviderList(recs, rtype, name)
         IN Eff(recs, nid,
                <<Call("list", domain, rtype, name, Nothing, oc, raw)>>,
                Return([i \in 1..Len(raw) |-> Normalised(raw[i])]))

\* The with-block of add_record, delete_record and update_record: one
\* provider call, whose result is returned as it is.  content is Optional
\* (delete_record may leave it out).
Mutate(op, recs, nid, domain, rtype, name, content, oc) ==
    LET call(resp) == Call(op, domain, Some(rtype), Some(name), content, oc, resp)
    IN IF oc.k = "raise" THEN Eff(recs, nid, <<call(NoneV)>>, oc)
       ELSE IF oc.k = "false" THEN Eff(recs, nid, <<call(FALSE)>>, Return(FALSE))
       ELSE CASE op = "create" ->
                   Eff(ProviderCreate(recs, nid, rtype, name, content[1]),
                       nid + 1, <<call(TRUE)>>, Return(TRUE))
              [] op = "update" ->
                   LET hit == Hit(recs, Some(rtype), Some(name), Nothing)
                   IN Eff(ProviderUpdate(recs, rtype, name, content[1]), nid,
                          <<call(hit)>>, Return(hit))
              [] OTHER ->
                   LET hit == Hit(recs, Some(rtype), Some(name), content)
                   IN Eff(ProviderDelete(recs, rtype, name, content), nid,
                          <<call(hit)>>, Return(hit))

add_record(recs, nid, fd, content, rtype, oc) ==
    LET pd == parse_domain(fd) IN
    IF pd = ValueError THEN Eff(recs, nid, <<>>, Raise("ValueError"))
    ELSE Mutate("create", recs, nid, pd.domain, rtype,
                FullName(pd.domain, pd.rr), Some(content), oc)

\* Mutant: the last record of the list is returned, not the first.
find_record_last(recs, nid, fd, rtype, oc) ==
    LET pd == parse_domain(fd) IN
    IF pd = ValueError THEN Eff(recs, nid, <<>>, Raise("ValueError"))
    ELSE LET e == list_records(recs, nid, pd.domain, Some(rtype),
                               Some(FullName(pd.domain, pd.rr)), oc)
         IN IF e.ret.k = "raise" THEN e
            ELSE [e EXCEPT !.ret =
                     Return(IF e.ret.v # <<>> THEN e.ret.v[Len(e.ret.v)]
                            ELSE NoneV)]

\* Mutant: the lookup is by the registrable domain, not the full name.
find_record_by_domain(recs, nid, fd, rtype, oc) ==
    LET pd == parse_domain(fd) IN
    IF pd = ValueError THEN Eff(recs, nid, <<>>, Raise("ValueError"))
    ELSE LET e == list_records(recs, nid, pd.domain, Some(rtype),
                               Some(pd.domain), oc)
         IN IF e.ret.k = "raise" THEN e
            ELSE [e EXCEPT !.ret =
                     Return(IF e.ret.v # <<>> THEN e.ret.v[1] ELSE NoneV)]

find_record(recs, nid, fd, rtype, oc) ==
    LET pd == parse_domain(fd) IN
    IF pd = ValueError THEN Eff(recs, nid, <<>>, Raise("ValueError"))
    ELSE LET e == list_records(recs, nid, pd.domain, Some(rtype),
                               Some(FullName(pd.domain, pd.rr)), oc)
         IN IF e.ret.k = "raise" THEN e
            ELSE [e EXCEPT !.ret =
                     Return(IF e.ret.v # <<>> THEN e.ret.v[1] ELSE NoneV)]

delete_record(recs, nid, fd, rtype, content, oc) ==
    LET pd == parse_domain(fd) IN
    IF pd = ValueError THEN Eff(recs, nid, <<>>, Raise("ValueError"))
    ELSE Mutate("delete", recs, nid, pd.domain, rtype,
                FullName(pd.domain, pd.rr), content, oc)

update_record(recs, nid, fd, content, rtype, oc) ==
    LET pd == parse_domain(fd) IN
    IF pd = ValueError THEN Eff(recs, nid, <<>>, Raise("ValueError"))
    ELSE Mutate("update", recs, nid, pd.domain, rtype,
                FullName(pd.domain, pd.rr), Some(content), oc)

\* Mutant: the record found is ignored and a record is always added.
update_or_create_act_always_add(recs, nid, record, fd, content, rtype, oc) ==
    LET e == add_record(recs, nid, fd, content, rtype, oc)
    IN IF e.ret.k = "raise" THEN e
       ELSE [e EXCEPT !.ret = Return(<<e.ret.v, TRUE>>)]

\* Mutant: was_created is False on the create branch too.
update_or_create_act_flag(recs, nid, record, fd, content, rtype, oc) ==
    IF record # NoneV
    THEN LET e == update_record(recs, nid, fd, content, rtype, oc)
         IN IF e.ret.k = "raise" THEN e
            ELSE [e EXCEPT !.ret = Return(<<e.ret.v, FALSE>>)]
    ELSE LET e == add_record(recs, nid, fd, content, rtype, oc)
         IN IF e.ret.k = "raise" THEN e
            ELSE [e EXCEPT !.ret = Return(<<e.ret.v, FALSE>>)]

\* Mutant: an update that raises is followed by an attempt to add.
update_or_create_act_fallback(recs, nid, record, fd, content, rtype, oc) ==
    IF record # NoneV
    THEN LET e == update_record(recs, nid, fd, content, rtype, oc)
         IN IF e.ret.k = "raise"
            THEN LET again == add_record(e.records, e.next_id, fd, content,
                                         rtype, oc)
                 IN [again EXCEPT !.calls = e.calls \o again.calls]
            ELSE [e EXCEPT !.ret = Return(<<e.ret.v, FALSE>>)]
    ELSE LET e == add_record(recs, nid, fd, content, rtype, oc)
         IN IF e.ret.k = "raise" THEN e
            ELSE [e EXCEPT !.ret = Return(<<e.ret.v, TRUE>>)]

\* update_or_create after its find_record has returned `record`: the
\* branch on it, and the pair returned.
update_or_create_act(recs, nid, record, fd, content, rtype, oc) ==
    IF record # NoneV
    THEN LET e == update_record(recs, nid, fd, content, rtype, oc)
         IN IF e.ret.k = "raise" THEN e
            ELSE [e EXCEPT !.ret = Return(<<e.ret.v, FALSE>>)]
    ELSE LET e == add_record(recs, nid, fd, content, rtype, oc)
         IN IF e.ret.k = "raise" THEN e
            ELSE [e EXCEPT !.ret = Return(<<e.ret.v, TRUE>>)]

----------------------------------------------------------------------------
(* Callers of the DNSClient methods.  Each provider call is one step; a    *)
(* method with one provider call is one step, update_or_create is two (its *)
(* find_record, then its update_record or add_record), and the steps of    *)
(* two callers interleave.                                                  *)

Procs == {1, 2}

\* The caller of Spec, which runs every method, one invocation after another.
LibCallers == {1}

WwwExampleCom == <<"www", ".", "example", ".", "com">>
ExampleCom == <<"example", ".", "com">>
ExampleComDot == <<"example", ".", "com", ".">>
Localhost == <<"localhost">>
FullDomains == {WwwExampleCom, ExampleComDot, Localhost}

Idle ==
    [op |-> "none", fd |-> <<>>, content |-> Nothing, rtype |-> Nothing,
     pc |-> "idle", record |-> NoneV, calls |-> <<>>, ret |-> Pending,
     prior |-> FALSE]

\* The provider's records when the callers start: none, one, or two of the
\* same name and type.
InitialStores ==
    {<<>>,
     <<WithTtl(Stored(1, WwwExampleCom, "A", "1.1.1.1"), "600")>>,
     <<Stored(1, WwwExampleCom, "A", "2.2.2.2"),
       WithTtl(Stored(2, WwwExampleCom, "A", "1.1.1.1"), "600")>>}

\* At most one record of each name and type.
NoDuplicates(recs) ==
    \A i, j \in 1..Len(recs) :
        (recs[i]["name"] = recs[j]["name"] /\ recs[i]["type"] = recs[j]["type"])
            => i = j

InitCallers ==
    /\ next_id = Len(records) + 1
    /\ started = 0
    /\ proc = [p \in Procs |-> Idle]
    /\ succeeded = {}

InitIdleParser ==
    /\ full_domain = <<>>
    /\ parsed = NotYet
    /\ full_name = NotYet

\* The environment variables PROVIDER_ENV_MAP names.
EnvNames == {"ALIYUN_ACCESS_KEY_ID", "ALIYUN_ACCESS_KEY_SECRET",
             "CLOUDFLARE_API_TOKEN", "DNSPOD_API_TOKEN"}

\* No command has been run.
NotRun == [pc |-> "idle"]

InitIdleCli ==
    /\ env = [n \in EnvNames |-> None]
    /\ run = NotRun

Init ==
    /\ records \in InitialStores
    /\ InitCallers
    /\ InitIdleParser
    /\ InitIdleCli

\* Caller p is free to start a method.
Begin(p) ==
    /\ proc[p].pc \in {"idle", "done"}
    /\ started < MaxInvocations

\* Caller p has run method op to its end, with effect e.
Finished(op, fd, content, rtype, e) ==
    [op |-> op, fd |-> fd, content |-> content, rtype |-> rtype,
     pc |-> "done", record |-> NoneV, calls |-> e.calls, ret |-> e.ret,
     prior |-> FALSE]

Effect(p, e, state) ==
    /\ proc' = [proc EXCEPT ![p] = state]
    /\ records' = e.records
    /\ next_id' = e.next_id

ListRecords(p) ==
    /\ Begin(p)
    /\ \E rtype \in {Nothing} \cup {Some(t) : t \in Types}, oc \in ListOutcomes :
          LET e == list_records(records, next_id, ExampleCom, rtype, Nothing, oc)
          IN Effect(p, e, Finished("list_records", ExampleCom, Nothing, rtype, e))
    /\ started' = started + 1
    /\ UNCHANGED <<succeeded, pvars, cvars>>

AddRecord(p) ==
    /\ Begin(p)
    /\ Len(records) < MaxRecords
    /\ \E fd \in FullDomains, content \in Contents, rtype \in Types,
          oc \in Outcomes :
          LET e == add_record(records, next_id, fd, content, rtype, oc)
          IN Effect(p, e, Finished("add_record", fd, Some(content), Some(rtype), e))
    /\ started' = started + 1
    /\ UNCHANGED <<succeeded, pvars, cvars>>

FindRecord(p) ==
    /\ Begin(p)
    /\ \E fd \in FullDomains, rtype \in Types, oc \in ListOutcomes :
          LET e == find_record(records, next_id, fd, rtype, oc)
          IN Effect(p, e, Finished("find_record", fd, Nothing, Some(rtype), e))
    /\ started' = started + 1
    /\ UNCHANGED <<succeeded, pvars, cvars>>

DeleteRecord(p) ==
    /\ Begin(p)
    /\ \E fd \in FullDomains, rtype \in Types, oc \in Outcomes,
          content \in {Nothing, Some("1.1.1.1")} :
          LET e == delete_record(records, next_id, fd, rtype, content, oc)
          IN Effect(p, e, Finished("delete_record", fd, content, Some(rtype), e))
    /\ started' = started + 1
    /\ UNCHANGED <<succeeded, pvars, cvars>>

UpdateRecord(p) ==
    /\ Begin(p)
    /\ \E fd \in FullDomains, content \in Contents, rtype \in Types,
          oc \in Outcomes :
          LET e == update_record(records, next_id, fd, content, rtype, oc)
          IN Effect(p, e, Finished("update_record", fd, Some(content), Some(rtype), e))
    /\ started' = started + 1
    /\ UNCHANGED <<succeeded, pvars, cvars>>

\* update_or_create up to the return of its find_record.
UpdateOrCreateFind(p) ==
    /\ Begin(p)
    /\ \E fd \in FullDomains, content \in Contents, rtype \in Types,
          oc \in ListOutcomes :
          LET e == find_record(records, next_id, fd, rtype, oc)
              done == Finished("update_or_create", fd, Some(content), Some(rtype), e)
          IN Effect(p, e,
                    IF e.ret.k = "raise"
                    THEN done
                    ELSE [done EXCEPT !.pc = "found", !.record = e.ret.v,
                                      !.ret = Pending,
                                      !.prior = <<fd, rtype>> \in succeeded])
    /\ started' = started + 1
    /\ UNCHANGED <<succeeded, pvars, cvars>>

\* update_or_create from the branch on the record found to its return.
UpdateOrCreateAct(p) ==
    /\ proc[p].pc = "found"
    /\ proc[p].record = NoneV => Len(records) < MaxRecords
    /\ \E oc \in Outcomes :
          LET me == proc[p]
              e == update_or_create_act(records, next_id, me.record, me.fd,
                                        me.content[1], me.rtype[1], oc)
          IN /\ Effect(p, e, [me EXCEPT !.pc = "done",
                                        !.calls = me.calls \o e.calls,
                                        !.ret = e.ret])
             /\ succeeded' =
                    IF e.ret.k = "return" /\ e.ret.v[1]
                    THEN succeeded \cup {<<me.fd, me.rtype[1]>>}
                    ELSE succeeded
    /\ UNCHANGED <<started, pvars, cvars>>

Next ==
    \E p \in LibCallers :
        \/ ListRecords(p)
        \/ AddRecord(p)
        \/ FindRecord(p)
        \/ DeleteRecord(p)
        \/ UpdateRecord(p)
        \/ UpdateOrCreateFind(p)
        \/ UpdateOrCreateAct(p)

Spec == Init /\ [][Next]_vars

\* Two callers of update_or_create, their provider calls interleaved.
NextUoc ==
    \E p \in Procs :
        \/ UpdateOrCreateFind(p)
        \/ UpdateOrCreateAct(p)

SpecUoc == Init /\ [][NextUoc]_vars

\* No other caller is between the find_record and the update_record or
\* add_record of its update_or_create.
Alone(p) == \A q \in Procs \ {p} : proc[q].pc # "found"

\* The callers of update_or_create take turns: an invocation starts only
\* when every other has finished, and the provider starts without two
\* records of one name and type.
InitSeq == Init /\ NoDuplicates(records)

NextSeq ==
    \E p \in Procs :
        \/ Alone(p) /\ UpdateOrCreateFind(p)
        \/ UpdateOrCreateAct(p)

SpecSeq == InitSeq /\ [][NextSeq]_vars

----------------------------------------------------------------------------
(* Parser runs: the argument is any string of at most MaxAtoms atoms, built *)
(* one atom at a time; parse_domain is then applied to it.                  *)

InitParse ==
    /\ InitIdleParser
    /\ records = <<>>
    /\ InitCallers
    /\ InitIdleCli

\* The caller's argument grows by one atom (a label atom never follows a
\* label atom: the two would be one label).
Extend ==
    /\ parsed = NotYet
    /\ Len(full_domain) < MaxAtoms
    /\ \E a \in Atoms :
          /\ full_domain # <<>> /\ full_domain[Len(full_domain)] # Dot => a = Dot
          /\ full_domain' = Append(full_domain, a)
    /\ UNCHANGED <<parsed, full_name, ovars, cvars>>

ParseDomain ==
    /\ parsed = NotYet
    /\ parsed' = parse_domain(full_domain)
    /\ UNCHANGED <<full_domain, full_name, ovars, cvars>>

BuildFullName ==
    /\ parsed.k = "ok"
    /\ full_name = NotYet
    /\ full_name' = Built(FullName(parsed.domain, parsed.rr))
    /\ UNCHANGED <<full_domain, parsed, ovars, cvars>>

NextParse == Extend \/ ParseDomain \/ BuildFullName

SpecParse == InitParse /\ [][NextParse]_vars

----------------------------------------------------------------------------
(* DNSClient.__init__ and the command handlers of cli.py *)

\* PROVIDER_ENV_MAP: per provider, its <<credential key, environment name>>.
PROVIDER_ENV_MAP ==
    [aliyun |-> {<<"auth_key_id", "ALIYUN_ACCESS_KEY_ID">>,
                 <<"auth_secret", "ALIYUN_ACCESS_KEY_SECRET">>},
     cloudflare |-> {<<"auth_token", "CLOUDFLARE_API_TOKEN">>},
     dnspod |-> {<<"auth_token", "DNSPOD_API_TOKEN">>}]

\* os.environ.get(name).  The environment maps every name to its value,
\* an unset variable to None.
EnvironGet(environ, name) == environ[name]

\* Python truth of an Optional[str]: None and "" are false.
Truthy(value) == value \notin {None, ""}

\* DNSClient(provider, **credentials): the client's credentials (a set of
\* <<key, value>>), or ValueError when there are none.
DNSClient_init(provider, credentials, environ) ==
    LET creds ==
            IF credentials = {} /\ provider \in DOMAIN PROVIDER_ENV_MAP
            THEN {<<kv[1], EnvironGet(environ, kv[2])>> :
                      kv \in {x \in PROVIDER_ENV_MAP[provider] :
                                  Truthy(EnvironGet(environ, x[2]))}}
            ELSE credentials
    IN IF creds = {} THEN Raise("ValueError")
       ELSE Return([provider |-> provider, credentials |-> creds])

\* get_client: the client, or the error printed and SystemExit(1).
get_client(provider, environ) == DNSClient_init(provider, {}, environ)

\* How a command (or its first half) leaves things: the provider after the
\* effect e, the provider calls issued, what was printed, and the exit code
\* (-1 while the command still runs, then with the record find_record gave).
CliEnd(e, out, code) ==
    [records |-> e.records, next_id |-> e.next_id, calls |-> e.calls,
     out |-> out, exit |-> code, record |-> NoneV]

\* Nothing was asked of the provider.
NoCall(recs, nid) == Eff(recs, nid, <<>>, Pending)

\* list, from the return (or raise) of list_records.
cli_list_report(e) ==
    IF e.ret.k = "raise" THEN CliEnd(e, <<"error">>, 1)
    ELSE IF e.ret.v = <<>> THEN CliEnd(e, <<"empty">>, 0)
    ELSE CliEnd(e, <<"table">>, 0)

cli_list(recs, nid, provider, environ, domain, rtype, oc) ==
    IF get_client(provider, environ).k = "raise"
    THEN CliEnd(NoCall(recs, nid), <<"error">>, 1)
    ELSE cli_list_report(list_records(recs, nid, domain, rtype, Nothing, oc))

\* Mutant: a result of False is printed but the command exits 0.
cli_add_report_no_exit(e) ==
    IF e.ret.k = "raise" THEN CliEnd(e, <<"info", "error">>, 1)
    ELSE IF e.ret.v THEN CliEnd(e, <<"info", "added">>, 0)
    ELSE CliEnd(e, <<"info", "failed">>, 0)

\* add, from the return (or raise) of add_record.
cli_add_report(e) ==
    IF e.ret.k = "raise" THEN CliEnd(e, <<"info", "error">>, 1)
    ELSE IF e.ret.v THEN CliEnd(e, <<"info", "added">>, 0)
    ELSE CliEnd(e, <<"info", "failed">>, 1)

\* parse_domain is called outside the try: its ValueError is not caught and
\* ends the process with a traceback and exit code 1.
cli_add(recs, nid, provider, environ, fd, value, rtype, oc) ==
    IF get_client(provider, environ).k = "raise"
    THEN CliEnd(NoCall(recs, nid), <<"error">>, 1)
    ELSE IF parse_domain(fd) = ValueError
    THEN CliEnd(NoCall(recs, nid), <<"traceback">>, 1)
    ELSE cli_add_report(add_record(recs, nid, fd, value, rtype, oc))

\* delete, from the return (or raise) of delete_record.
cli_delete_report(e) ==
    IF e.ret.k = "raise" THEN CliEnd(e, <<"info", "error">>, 1)
    ELSE IF e.ret.v THEN CliEnd(e, <<"info", "deleted">>, 0)
    ELSE CliEnd(e, <<"info", "failed">>, 1)

cli_delete(recs, nid, provider, environ, fd, rtype, oc) ==
    IF get_client(provider, environ).k = "raise"
    THEN CliEnd(NoCall(recs, nid), <<"error">>, 1)
    ELSE cli_delete_report(delete_record(recs, nid, fd, rtype, Nothing, oc))

\* update, from the return (or raise) of the find_record of update_or_create.
cli_update_found(e) ==
    IF e.ret.k = "raise" THEN CliEnd(e, <<"info", "error">>, 1)
    ELSE [CliEnd(e, <<"info">>, -1) EXCEPT !.record = e.ret.v]

\* update, up to the return of the find_record of update_or_create.
cli_update_find(recs, nid, provider, environ, fd, rtype, oc) ==
    IF get_client(provider, environ).k = "raise"
    THEN CliEnd(NoCall(recs, nid), <<"error">>, 1)
    ELSE cli_update_found(find_record(recs, nid, fd, rtype, oc))

\* update, from the return (or raise) of update_or_create.
cli_update_report(e) ==
    IF e.ret.k = "raise" THEN CliEnd(e, <<"error">>, 1)
    ELSE IF e.ret.v[1]
    THEN CliEnd(e, IF e.ret.v[2] THEN <<"created">> ELSE <<"updated">>, 0)
    ELSE CliEnd(e, <<"failed">>, 1)

\* update, from the branch of update_or_create to the exit.
cli_update_act(recs, nid, record, fd, value, rtype, oc) ==
    cli_update_report(
        update_or_create_act(recs, nid, record, fd, value, rtype, oc))

----------------------------------------------------------------------------
(* One run of the command line *)

\* The providers a run may select: the three of PROVIDER_ENV_MAP and one
\* it does not list.
Providers == {"aliyun", "cloudflare", "dnspod", "route53"}

\* Every environment: each variable unset, empty or set.
Environments == [EnvNames -> {None, "", "secret"}]

InitCli ==
    /\ records \in InitialStores
    /\ InitCallers
    /\ InitIdleParser
    /\ env \in Environments
    /\ run = NotRun

\* The run after a handler step with result r.
Ran(cmd, provider, fd, value, rtype, r) ==
    [pc |-> IF r.exit = -1 THEN "found" ELSE "exited",
     cmd |-> cmd, provider |-> provider, fd |-> fd, value |-> value,
     rtype |-> rtype, record |-> r.record, calls |-> r.calls, out |-> r.out,
     exit |-> r.exit]

CliEffect(r, state) ==
    /\ run' = state
    /\ records' = r.records
    /\ next_id' = r.next_id
    /\ UNCHANGED <<env, started, proc, succeeded, pvars>>

CmdList ==
    /\ run.pc = "idle"
    /\ \E provider \in Providers, oc \in ListOutcomes,
          rtype \in {Nothing} \cup {Some(t) : t \in Types} :
          LET r == cli_list(records, next_id, provider, env, ExampleCom, rtype, oc)
          IN CliEffect(r, Ran("list", provider, ExampleCom, Nothing, rtype, r))

CmdAdd ==
    /\ run.pc = "idle"
    /\ Len(records) < MaxRecords
    /\ \E provider \in Providers, fd \in FullDomains, value \in Contents,
          rtype \in Types, oc \in Outcomes :
          LET r == cli_add(records, next_id, provider, env, fd, value, rtype, oc)
          IN CliEffect(r, Ran("add", provider, fd, Some(value), Some(rtype), r))

CmdDelete ==
    /\ run.pc = "idle"
    /\ \E provider \in Providers, fd \in FullDomains, rtype \in Types,
          oc \in Outcomes :
          LET r == cli_delete(records, next_id, provider, env, fd, rtype, oc)
          IN CliEffect(r, Ran("delete", provider, fd, Nothing, Some(rtype), r))

CmdUpdateFind ==
    /\ run.pc = "idle"
    /\ \E provider \in Providers, fd \in FullDomains, value \in Contents,
          rtype \in Types, oc \in ListOutcomes :
          LET r == cli_update_find(records, next_id, provider, env, fd, rtype, oc)
          IN CliEffect(r, Ran("update", provider, fd, Some(value), Some(rtype), r))

CmdUpdateAct ==
    /\ run.pc = "found"
    /\ run.record = NoneV => Len(records) < MaxRecords
    /\ \E oc \in Outcomes :
          LET r == cli_update_act(records, next_id, run.record, run.fd,
                                  run.value[1], run.rtype[1], oc)
          IN CliEffect(r, [run EXCEPT !.pc = "exited",
                                      !.calls = run.calls \o r.calls,
                                      !.out = run.out \o r.out,
                                      !.exit = r.exit])

NextCli == CmdList \/ CmdAdd \/ CmdDelete \/ CmdUpdateFind \/ CmdUpdateAct

SpecCli == InitCli /\ [][NextCli]_vars

----------------------------------------------------------------------------
(* Claims about the parser, checked under SpecParse *)

\* The input without one trailing dot, if it has one.
StripOneDot(s) ==
    IF s # <<>> /\ s[Len(s)] = Dot THEN SubSeq(s, 1, Len(s) - 1) ELSE s

\* Two or more non-empty labels separated by single dots, optionally
\* followed by one trailing dot.
WellFormed(s) ==
    LET c == StripOneDot(s) IN
    /\ Len(c) >= 3
    /\ Len(c) % 2 = 1
    /\ \A i \in 1..Len(c) : (c[i] = Dot) <=> (i % 2 = 0)

\* The i-th label of a well-formed input, as text.
LabelOf(s, i) == s[2 * i - 1]
NLabels(s) == (Len(StripOneDot(s)) + 1) \div 2

\* Labels i..j of a well-formed input joined by ".".
JoinLabels(s, i, j) ==
    [k \in 1..(2 * (j - i) + 1) |-> s[2 * i - 2 + k]]

\* The reference algorithm of section 4.1, on a well-formed input.
RefParse(s) ==
    LET n == NLabels(s)
        special == /\ LabelOf(s, n) = "cn"
                   /\ LabelOf(s, n - 1) \in {"com", "net", "org", "gov", "edu"}
    IN IF special
       THEN IF n >= 3
            THEN Pair(JoinLabels(s, n - 2, n),
                      IF n = 3 THEN <<"@">> ELSE JoinLabels(s, 1, n - 3))
            ELSE Pair(s, <<"@">>)
       ELSE Pair(JoinLabels(s, n - 1, n),
                 IF n = 2 THEN <<"@">> ELSE JoinLabels(s, 1, n - 2))

\* C2: for every full domain of two or more non-empty labels (optionally
\* with one trailing dot) parse_domain returns what the reference algorithm
\* of section 4.1 returns: the last three labels and the rest (or "@") under
\* the five special .cn suffixes, the input itself and "@" for a bare
\* special suffix, the last two labels and the rest (or "@") otherwise.
C2_ParseMatchesReference ==
    (parsed # NotYet /\ WellFormed(full_domain))
        => parsed = RefParse(full_domain)

\* A four-label name under edu.cn, with a trailing dot, has been parsed.
C2_Witness ==
    /\ full_domain = <<"CN", ".", "www", ".", "edu", ".", "cn", ".">>
    /\ parsed = Pair(<<"www", ".", "edu", ".", "cn">>, <<"CN">>)

\* Every dot of the input lies in its run of trailing dots.
NoInnerDot(s) ==
    \A i \in 1..Len(s) : s[i] = Dot => \A j \in i..Len(s) : s[j] = Dot

\* C3 (as amended): parse_domain fails with the invalid-domain error exactly
\* when the input, with all of its trailing dots stripped, holds no dot (it
\* splits into fewer than two labels); every other input, empty labels
\* included, is accepted.
C3_FailsIffNoInnerDot ==
    parsed # NotYet => (parsed = ValueError <=> NoInnerDot(full_domain))

\* "www.." has been rejected: one label once both trailing dots are gone.
C3_Witness ==
    /\ full_domain = <<"www", ".", ".">>
    /\ parsed = ValueError

\* C3 (as stated): parse_domain fails exactly when the input, after
\* stripping a single trailing dot, splits into fewer than two labels, that
\* is, holds no dot.
C3_Original ==
    parsed # NotYet =>
        (parsed = ValueError <=>
            \A i \in 1..Len(StripOneDot(full_domain)) :
                StripOneDot(full_domain)[i] # Dot)

\* C4: the canonical full name rebuilt from the result of parse_domain
\* equals the original full domain with its trailing dot stripped (here for
\* the inputs of two or more non-empty labels with at most one trailing
\* dot, "com.cn." and the label "@" among them).
C4_RoundTrip ==
    (full_name # NotYet /\ WellFormed(full_domain))
        => full_name.name = StripOneDot(full_domain)

----------------------------------------------------------------------------
(* Claims about the record methods *)

\* Caller p's update_or_create got an answer to its lookup.
LookedUp(p) ==
    /\ proc[p].op = "update_or_create"
    /\ Len(proc[p].calls) >= 1
    /\ proc[p].calls[1].oc = Ok

\* The provider calls of a log that change records.
Mutating(calls) == {i \in 1..Len(calls) : calls[i].op # "list"}

\* C1: update_or_create looks the record up and then issues exactly one
\* mutating provider call, create when the lookup gave no record and update
\* when it gave one, for the name and type of the lookup, and returns the
\* provider's result with was_created true for create, false for update.
C1_UpdateOrCreateBranches ==
    \A p \in Procs :
        LET me == proc[p] IN
        (LookedUp(p) /\ me.pc = "done") =>
            /\ Len(me.calls) = 2
            /\ Mutating(me.calls) = {2}
            /\ me.calls[1].op = "list"
            /\ me.calls[1].name = Some(StripOneDot(me.fd))
            /\ me.calls[1].rtype = me.rtype
            /\ me.record = NoneV <=> me.calls[1].resp = <<>>
            /\ me.calls[2].op = IF me.record = NoneV THEN "create" ELSE "update"
            /\ me.calls[2].name = me.calls[1].name
            /\ me.calls[2].rtype = me.calls[1].rtype
            /\ me.calls[2].domain = me.calls[1].domain
            /\ me.calls[2].content = me.content
            /\ me.ret.k = "return" =>
                   me.ret.v = <<me.calls[2].resp, me.record = NoneV>>

\* One caller has created a record and the other has updated it.
C1_Witness ==
    /\ LookedUp(1) /\ proc[1].ret = Return(<<TRUE, TRUE>>)
    /\ LookedUp(2) /\ proc[2].ret = Return(<<TRUE, FALSE>>)
    /\ proc[2].calls[2].op = "update"

\* Caller p's lookup answered "no record".
FoundNone(p) == LookedUp(p) /\ proc[p].record = NoneV

\* Caller p's second provider call was answered normally.
Acted(p) ==
    /\ proc[p].pc = "done"
    /\ Len(proc[p].calls) = 2
    /\ proc[p].calls[2].oc = Ok

\* The stored records of the name and type caller p looked up.
Held(p) ==
    {i \in 1..Len(records) :
        /\ Some(records[i]["name"]) = proc[p].calls[1].name
        /\ Some(records[i]["type"]) = proc[p].calls[1].rtype}

\* C5: when the lookups of two update_or_create for the same name and type
\* both answer "no record", each of the two that goes on issues a create and
\* returns was_created = true, and once both have, the provider holds two
\* records of that name and type.
C5_RaceCreatesDuplicates ==
    \A p, q \in Procs :
        (/\ p # q
         /\ FoundNone(p) /\ FoundNone(q)
         /\ proc[p].calls[1].name = proc[q].calls[1].name
         /\ proc[p].calls[1].rtype = proc[q].calls[1].rtype) =>
            /\ Acted(p) =>
                   /\ proc[p].calls[2].op = "create"
                   /\ proc[p].ret = Return(<<TRUE, TRUE>>)
            /\ (Acted(p) /\ Acted(q)) => Cardinality(Held(p)) = 2

\* Both callers found no record of www.example.com, both created one.
C5_Witness ==
    /\ FoundNone(1) /\ FoundNone(2)
    /\ proc[1].fd = WwwExampleCom /\ proc[2].fd = WwwExampleCom
    /\ proc[1].rtype = proc[2].rtype
    /\ Acted(1) /\ Acted(2)
    /\ proc[1].ret = Return(<<TRUE, TRUE>>)
    /\ proc[2].ret = Return(<<TRUE, TRUE>>)
    /\ Cardinality(Held(1)) = 2

\* Caller p's find_record got an answer from the provider.
Found(p) ==
    /\ proc[p].op = "find_record"
    /\ proc[p].pc = "done"
    /\ Len(proc[p].calls) = 1
    /\ proc[p].calls[1].oc = Ok

\* The dict returned for provider record r, field by field.
SameRecord(d, r) ==
    /\ d.id = r["id"] /\ d.name = r["name"]
    /\ d.type = r["type"] /\ d.content = r["content"]
    /\ d.ttl = IF "ttl" \in DOMAIN r THEN r["ttl"] ELSE ""

\* C6: find_record lists the provider's records by the given type and the
\* canonical name, returns None when the list is empty and otherwise its
\* first element, however many there are; it issues no create, update or
\* delete, and the provider's records are the same after it.
C6_FindRecordFirstMatch ==
    /\ [](\A p \in LibCallers :
             /\ proc[p].op = "find_record" => Mutating(proc[p].calls) = {}
             /\ Found(p) =>
                  LET c == proc[p].calls[1] IN
                  /\ c.op = "list"
                  /\ c.rtype = proc[p].rtype
                  /\ c.name = Some(StripOneDot(proc[p].fd))
                  /\ proc[p].ret.k = "return"
                  /\ IF c.resp = <<>> THEN proc[p].ret.v = NoneV
                     ELSE SameRecord(proc[p].ret.v, c.resp[1]))
    /\ [][\A p \in LibCallers :
             (proc'[p].op = "find_record" /\ proc'[p] # proc[p])
                 => records' = records]_vars

\* find_record got two records from the provider and returned the first.
C6_Witness ==
    /\ Found(1)
    /\ Len(proc[1].calls[1].resp) = 2
    /\ proc[1].ret.v.id = proc[1].calls[1].resp[1]["id"]
    /\ proc[1].ret.v.id # proc[1].calls[1].resp[2]["id"]

\* C9: in one invocation each provider call is issued at most once; a call
\* that raises is the last call of the invocation, which ends there raising
\* that same error; update_or_create issues its create or update only after
\* a lookup that did not fail, and nothing follows a failed create or update.
C9_NoRetryNoRecovery ==
    \A p \in LibCallers :
        LET me == proc[p] IN
        /\ \A i, j \in 1..Len(me.calls) :
               me.calls[i].op = me.calls[j].op => i = j
        /\ Cardinality(Mutating(me.calls)) <= 1
        /\ \A i \in 1..Len(me.calls) :
               me.calls[i].oc.k = "raise" =>
                   /\ i = Len(me.calls)
                   /\ me.pc = "done"
                   /\ me.ret = me.calls[i].oc
        /\ \A i \in Mutating(me.calls) :
               /\ i = Len(me.calls)
               /\ \A j \in 1..(i - 1) : me.calls[j].oc = Ok

\* update_or_create found a record and its update raised: two calls, the
\* provider's error raised.
C9_Witness ==
    /\ proc[1].op = "update_or_create"
    /\ proc[1].pc = "done"
    /\ Len(proc[1].calls) = 2
    /\ proc[1].calls[2].op = "update"
    /\ proc[1].calls[2].oc = Raise("ProviderError")
    /\ proc[1].ret = Raise("ProviderError")

\* C10: with update_or_create run one invocation at a time, the provider
\* never holds two records of one name and type, and an invocation for a
\* full domain and type for which an earlier one succeeded finds a record of
\* that name and type, issues update and returns was_created = false.
C10_SequentialNoDuplicates ==
    /\ NoDuplicates(records)
    /\ \A p \in Procs :
           LET me == proc[p] IN
           (LookedUp(p) /\ me.prior) =>
               /\ me.record # NoneV
               /\ Some(me.record.name) = me.calls[1].name
               /\ Some(me.record.type) = me.rtype
               /\ Len(me.calls) = 2 => me.calls[2].op = "update"
               /\ (me.pc = "done" /\ me.ret.k = "return") => ~me.ret.v[2]

\* A second invocation for example.com. updated the record the first made.
C10_Witness ==
    /\ proc[1].prior
    /\ proc[1].fd = ExampleComDot
    /\ proc[1].ret = Return(<<TRUE, FALSE>>)
    /\ Cardinality(Held(1)) = 1

----------------------------------------------------------------------------
(* Claims about the command line, checked under SpecCli *)

\* The environment variables the credential table lists for a provider.
Listed(provider) ==
    CASE provider = "aliyun" ->
            {"ALIYUN_ACCESS_KEY_ID", "ALIYUN_ACCESS_KEY_SECRET"}
      [] provider = "cloudflare" -> {"CLOUDFLARE_API_TOKEN"}
      [] provider = "dnspod" -> {"DNSPOD_API_TOKEN"}
      [] OTHER -> {}

\* What the run printed in red, or as a traceback.
ErrorReported ==
    \E i \in 1..Len(run.out) : run.out[i] \in {"error", "failed", "traceback"}

\* No credential could be gathered for the run's provider.
NoCredentials ==
    \A n \in Listed(run.provider) : env[n] \in {None, ""}

\* The run's last provider call was answered False.
Refused ==
    /\ run.calls # <<>>
    /\ run.calls[Len(run.calls)].op # "list"
    /\ run.calls[Len(run.calls)].oc.k # "raise"
    /\ ~run.calls[Len(run.calls)].resp

\* C7: a command exits 0 exactly when its operation succeeded and 1 when an
\* error is reported: no credentials, a provider call that raised, an
\* invalid domain, a delete, create or update answered False.  A list of
\* zero records is a success.
C7_ExitCode ==
    run.pc = "exited" =>
        LET failed ==
                \/ NoCredentials
                \/ \E i \in 1..Len(run.calls) : run.calls[i].oc.k = "raise"
                \/ run.cmd # "list" /\ NoInnerDot(run.fd)
                \/ Refused
        IN /\ run.exit = IF failed THEN 1 ELSE 0
           /\ ErrorReported <=> run.exit = 1
           /\ run.exit = 0 =>
                  /\ run.calls # <<>>
                  /\ run.calls[Len(run.calls)].oc = Ok

\* list was answered with zero records and the command exited 0.
C7_Witness ==
    /\ run.pc = "exited"
    /\ run.cmd = "list"
    /\ run.calls # <<>>
    /\ run.calls[1].oc = Ok
    /\ run.calls[1].resp = <<>>
    /\ run.out = <<"empty">>
    /\ run.exit = 0

\* C8: when a credential the selected provider requires is absent (one of
\* its listed environment variables unset, or the provider unknown), the
\* run reports the configuration error, exits 1, and issues no provider call.
C8_MissingCredentialsStopRun ==
    (/\ run.pc # "idle"
     /\ \/ Listed(run.provider) = {}
        \/ \E n \in Listed(run.provider) : env[n] = None) =>
        /\ run.pc = "exited"
        /\ run.exit = 1
        /\ run.out = <<"error">>
        /\ run.calls = <<>>

====
